---- MODULE Spec2Model ----
(***************************************************************************)
(* InvestSmartExport: session establishment, watchlist extraction and the  *)
(* CSV ledger merge of src/main.py, as a state machine.                    *)
(*                                                                         *)
(* Python values are modelled as follows.  Strings are TLA+ strings, None  *)
(* is the value None below.  A calendar date is the day of the month of    *)
(* April 2025 (an integer; date arithmetic may leave 1..MaxDay), and the   *)
(* two strftime formats of the program produce different strings.  A text  *)
(* file is a record [exists, lines]; a CSV line is [cells, canon], where   *)
(* canon says that the text of the line is what csv.writer emits for those *)
(* cells (minimal quoting, \r\n).                                          *)
(***************************************************************************)
EXTENDS Integers, Sequences, FiniteSets, TLC

\* ---------------------------------------------------------------- bounds
MaxDay == 4          \* days 1..MaxDay of the month are modelled
MaxInitRows == 2     \* data rows of a ledger file found at start
MaxNew == 2          \* records extracted by one run
MaxSaves == 2        \* save_to_csv invocations in one behaviour (merge spec)
MaxRuns == 2         \* runs of the program in one behaviour
MaxRows == 1         \* data rows of the watchlist table
MaxCols == 2         \* header cells of the watchlist table
MaxCache == 1        \* entries of a cache file found at start
MaxListRows == 2     \* data rows of the table in the extraction-loop spec

\* ------------------------------------------------------- program constants
DefaultDaysToSave == 30

None == "<None>"
Days == 1..MaxDay

\* ------------------------------------------------------------ date strings
Pad2(n) == IF n < 10 THEN "0" \o ToString(n) ELSE ToString(n)

\* datetime.strftime("%Y-%m-%d")
strftime_ymd(d) == "2025-04-" \o Pad2(d)

\* datetime.strftime("%d/%m/%Y")
strftime_dmy(d) == Pad2(d) \o "/04/2025"

\* datetime.strptime(s, "%Y-%m-%d") raises ValueError unless s has the format
ParsesAsYmd(s) == \E d \in Days : strftime_ymd(d) = s

\* datetime.strptime(s, "%Y-%m-%d") for a string that parses
strptime_ymd(s) == CHOOSE d \in Days : strftime_ymd(d) = s

\* Midnight of day d is in daylight-saving time iff d <= dstEndDay; a run on
\* day t sees the daylight-saving offset iff t < dstEndDay (the change
\* happens in the small hours of dstEndDay).  dstEndDay = 0: no change.
UtcOffsetAtMidnight(d, dstEndDay) == IF d <= dstEndDay THEN 11 ELSE 10
UtcOffsetNow(t, dstEndDay) == IF t < dstEndDay THEN 11 ELSE 10

\* naive_midnight(d).astimezone(local_tz).date(), local_tz being the fixed
\* offset in force now: the naive value is read in the zone's offset of
\* day d and converted to the offset of now.
astimezone_date(d, t, dstEndDay) ==
    IF UtcOffsetAtMidnight(d, dstEndDay) > UtcOffsetNow(t, dstEndDay)
    THEN d - 1
    ELSE d

\* ---------------------------------------------------------------- CSV I/O
NoFile == [exists |-> FALSE, lines |-> << >>]
FileOf(ls) == [exists |-> TRUE, lines |-> ls]

\* csv.reader: the cells of a line, whatever its quoting
csv_read(line) == line.cells

\* csv.writer.writerow: None is written as the empty string
csv_field(v) == IF v = None THEN "" ELSE v
csv_writerow(cells) ==
    [cells |-> [i \in 1..Len(cells) |-> csv_field(cells[i])], canon |-> TRUE]

\* writer.writerow(row) for each row of a list
csv_writerows(rows) == [i \in 1..Len(rows) |-> csv_writerow(rows[i])]

\* The lines of a file found on disk, with cells as given; canon tells
\* whether its text is in the writer's form.
LinesOnDisk(rows, canon) == [i \in 1..Len(rows) |-> [cells |-> rows[i], canon |-> canon]]

\* ------------------------------------------------- text of table headers
\* A header text is a sequence of characters, so that str.strip, str.lower
\* and the "in" test are computed.
UpperChars == <<"A", "B", "C", "D", "E", "F", "G", "H", "I", "J", "K", "L", "M",
                "N", "O", "P", "Q", "R", "S", "T", "U", "V", "W", "X", "Y", "Z">>
LowerChars == <<"a", "b", "c", "d", "e", "f", "g", "h", "i", "j", "k", "l", "m",
                "n", "o", "p", "q", "r", "s", "t", "u", "v", "w", "x", "y", "z">>

lower_char(c) ==
    IF \E k \in 1..Len(UpperChars) : UpperChars[k] = c
    THEN LowerChars[CHOOSE k \in 1..Len(UpperChars) : UpperChars[k] = c]
    ELSE c

\* str.lower()
lower(txt) == [i \in 1..Len(txt) |-> lower_char(txt[i])]

\* str.strip()
strip(txt) ==
    LET inked == {i \in 1..Len(txt) : txt[i] # " "}
    IN  IF inked = {} THEN << >>
        ELSE SubSeq(txt,
                    CHOOSE i \in inked : \A j \in inked : i <= j,
                    CHOOSE i \in inked : \A j \in inked : i >= j)

\* sub in txt
Contains(sub, txt) ==
    \E i \in 1..(Len(txt) - Len(sub) + 1) : SubSeq(txt, i, i + Len(sub) - 1) = sub

FundKey == <<"f", "u", "n", "d">>
PriceKey == <<"c", "u", "r", "r", "e", "n", "t", " ", "u", "n", "i", "t", " ",
              "p", "r", "i", "c", "e">>

\* A resolution that compares the header text as it is cased.
header_text_cased(h) == strip(h)

\* header.text.strip().lower()
header_text(h) == lower(strip(h))

\* Column indexes are Python's (from 0); NoIndex stands for None.
NoIndex == -1

\* The loop over enumerate(headers): the last header that has the key wins.
ColumnIndex(headers, key) ==
    LET hits == {i \in 1..Len(headers) : Contains(key, header_text(headers[i]))}
    IN  IF hits = {} THEN NoIndex
        ELSE (CHOOSE i \in hits : \A j \in hits : i >= j) - 1

\* --------------------------------------------------- secondary-code cache
\* The cache file: kind "absent", "corrupt" (text that is not JSON),
\* "binary" (bytes that are not UTF-8 text), "badshape" (JSON that is not a
\* list of objects) or "list" with its entries.
CacheFile(kind, entries) == [kind |-> kind, entries |-> entries]
CacheEntry(name, code) == [fund_name |-> name, apir_code |-> code]

\* A load that starts every lookup from an empty cache.
load_fund_code_cache_empty(cf) == << >>

\* load_fund_code_cache(): JSONDecodeError gives the empty list.
load_fund_code_cache(cf) == IF cf.kind = "list" THEN cf.entries ELSE << >>

\* json.load(f) decodes the file as text first: bytes that are not UTF-8
\* raise UnicodeDecodeError, which is not a JSONDecodeError.
CacheLoadRaises(cf) == cf.kind = "binary"

\* Iterating the loaded value and calling entry.get raises (AttributeError,
\* TypeError) when the JSON value is not a list of objects.
CacheLoopRaises(cf) == cf.kind = "badshape"

\* Truthiness of a code: None and "" are false.
Truthy(code) == code # None /\ code # ""

\* A lookup that never finds an entry.
CacheLookup_ignored(cache, fund_name) == None

\* The cache loop of extract_apir_code: the first entry of that name with a
\* code, or None.
CacheLookup(cache, fund_name) ==
    LET hits == {i \in 1..Len(cache) :
                    cache[i].fund_name = fund_name /\ Truthy(cache[i].apir_code)}
    IN  IF hits = {} THEN None
        ELSE cache[CHOOSE i \in hits : \A j \in hits : i <= j].apir_code

\* An extract_apir_code that appends whatever the scan gave, found or not.
extract_apir_code_cachesmiss(cf, fund_name, scanned) ==
    LET cache == load_fund_code_cache(cf)
        cached == CacheLookup(cache, fund_name)
    IN  IF CacheLoadRaises(cf) \/ CacheLoopRaises(cf)
        THEN [raised |-> TRUE, code |-> None, cache |-> cf, hit |-> FALSE]
        ELSE IF cached # None
        THEN [raised |-> FALSE, code |-> cached, cache |-> cf, hit |-> TRUE]
        ELSE [raised |-> FALSE, code |-> scanned, hit |-> FALSE,
              cache |-> CacheFile("list", Append(cache, CacheEntry(fund_name, scanned)))]

\* extract_apir_code(logger, driver, fund_name), where scanned is what the
\* scan of the page in the current window yields (None: no labelled cell,
\* or the scan raised WebDriverException, which is caught).
extract_apir_code(cf, fund_name, scanned) ==
    LET cache == load_fund_code_cache(cf)
        cached == CacheLookup(cache, fund_name)
    IN  IF CacheLoadRaises(cf) \/ CacheLoopRaises(cf)
        THEN [raised |-> TRUE, code |-> None, cache |-> cf, hit |-> FALSE]
        ELSE IF cached # None
        THEN [raised |-> FALSE, code |-> cached, cache |-> cf, hit |-> TRUE]
        ELSE IF Truthy(scanned)
        THEN [raised |-> FALSE, code |-> scanned, hit |-> FALSE,
              cache |-> CacheFile("list", Append(cache, CacheEntry(fund_name, scanned)))]
        ELSE [raised |-> FALSE, code |-> scanned, cache |-> cf, hit |-> FALSE]

\* ------------------------------------------------------- try_login_bypass
\* A resume that reports failure although the account marker appeared.
try_login_bypass_relogin(cookies_exist, env) ==
    IF env = "driver_fault" THEN "raise"
    ELSE IF ~cookies_exist THEN "false"
    ELSE IF env = "marker" THEN "false"
    ELSE "raise"

\* try_login_bypass(config, logger, web_driver).  env is what the browser
\* does: "driver_fault" (a get, add_cookie or the wait raises a
\* WebDriverException that is not the wait's timeout, or the cookie file
\* does not load), "marker" (the account marker appears), "timeout" (the
\* wait for it times out).  The result is "true", "false" or "raise".
\* The handler of TimeoutException calls save_cookies() without its three
\* arguments, which raises TypeError before the log line and the return.
try_login_bypass(cookies_exist, env) ==
    IF env = "driver_fault" THEN "raise"
    ELSE IF ~cookies_exist THEN "false"
    ELSE IF env = "marker" THEN "true"
    ELSE "raise"

\* ------------------------------------------------------------------ login
\* A login that gives up when the Email field does not appear, without
\* looking for the account marker.
login_noprobe(nav, email, marker) ==
    IF nav = "fault" \/ email = "fault"
    THEN [result |-> "false", fatal |-> TRUE, filled |-> FALSE]
    ELSE IF email = "timeout"
    THEN [result |-> "false", fatal |-> TRUE, filled |-> FALSE]
    ELSE (IF marker = "present"
          THEN [result |-> "true", fatal |-> FALSE, filled |-> TRUE]
          ELSE [result |-> "false", fatal |-> TRUE, filled |-> TRUE])

\* login(config, logger, web_driver, username, password).  nav: the get of
\* the login page ("ok", "fault"); email: the wait for the Email field
\* ("visible", "timeout", "fault"); marker: the wait for the account marker
\* ("present", "timeout", "fault").  result is "true", "false" or "raise";
\* fatal says that log_fatal_error was called; filled that the form was
\* filled in and submitted.
login(nav, email, marker) ==
    IF nav = "fault" \/ email = "fault"
    THEN [result |-> "false", fatal |-> TRUE, filled |-> FALSE]
    ELSE IF email = "timeout"
    THEN (IF marker = "present"
          THEN [result |-> "true", fatal |-> FALSE, filled |-> FALSE]
          ELSE IF marker = "timeout"
          THEN [result |-> "false", fatal |-> TRUE, filled |-> FALSE]
          ELSE [result |-> "raise", fatal |-> FALSE, filled |-> FALSE])
    ELSE (IF marker = "present"
          THEN [result |-> "true", fatal |-> FALSE, filled |-> TRUE]
          ELSE [result |-> "false", fatal |-> TRUE, filled |-> TRUE])

\* Cookies saved whatever login() returned.
SavesCookies_always(result) == TRUE

\* main(): "if login(...): save_cookies(...)".
SavesCookies(result) == result = "true"

\* ------------------------------------------------------------ save_to_csv
\* A configuration value is << >> (null) or <<n>>.  Python's "x or 30".
OrDefault(cfg, dflt) == IF cfg = << >> \/ cfg[1] = 0 THEN dflt ELSE cfg[1]

SchemaHeader == <<"Symbol", "Date", "Name", "Currency", "Price">>

\* A header regenerated from the schema on every rewrite.
ReadHeader_regenerated(file) == SchemaHeader

\* header = [...]; if file_path.exists(): header = next(reader, None).
\* Used only where next() returns a line.
ReadHeader(file) == IF file.exists THEN csv_read(Head(file.lines)) ELSE SchemaHeader

\* The loop body of the reader: row[1] needs two cells (IndexError) and the
\* %Y-%m-%d format (ValueError).
RowRaises(cells) == Len(cells) < 2 \/ ~ParsesAsYmd(cells[2])

\* The filter of the reader loop.
KeepRow(cells, today_str, earliest_date, t, dstEndDay) ==
    /\ astimezone_date(strptime_ymd(cells[2]), t, dstEndDay) >= earliest_date
    /\ cells[1] # today_str

\* A save_to_csv that writes the new records in front of the existing rows.
save_to_csv_newfirst(file, data, cfgDays, t, dstEndDay) ==
    LET today_str == strftime_dmy(t)
        days_to_save == OrDefault(cfgDays, DefaultDaysToSave)
        earliest_date == t - days_to_save
        body == IF file.exists /\ file.lines # << >> THEN Tail(file.lines) ELSE << >>
        nonblank == SelectSeq(body, LAMBDA ln : csv_read(ln) # << >>)
        readFails == \E i \in 1..Len(nonblank) : RowRaises(csv_read(nonblank[i]))
        existing_rows ==
            SelectSeq(nonblank,
                      LAMBDA ln : KeepRow(csv_read(ln), today_str, earliest_date, t, dstEndDay))
        headerIsNone == file.exists /\ file.lines = << >>
        header == ReadHeader(file)
    IN  IF readFails THEN [raised |-> "read", file |-> file]
        ELSE IF headerIsNone THEN [raised |-> "write", file |-> FileOf(<< >>)]
        ELSE [raised |-> "no",
              file |-> FileOf(<<csv_writerow(header)>>
                              \o csv_writerows(data)
                              \o csv_writerows([i \in 1..Len(existing_rows) |->
                                                   csv_read(existing_rows[i])]))]

\* save_to_csv(config, data, file_path) on day t.  The result is the file
\* afterwards and where an exception left the function, if one did:
\* "read" (before the file is opened for writing), "write" (after it was
\* truncated) or "no".
save_to_csv(file, data, cfgDays, t, dstEndDay) ==
    LET today_str == strftime_dmy(t)
        days_to_save == OrDefault(cfgDays, DefaultDaysToSave)
        earliest_date == t - days_to_save
        body == IF file.exists /\ file.lines # << >> THEN Tail(file.lines) ELSE << >>
        nonblank == SelectSeq(body, LAMBDA ln : csv_read(ln) # << >>)
        readFails == \E i \in 1..Len(nonblank) : RowRaises(csv_read(nonblank[i]))
        existing_rows ==
            SelectSeq(nonblank,
                      LAMBDA ln : KeepRow(csv_read(ln), today_str, earliest_date, t, dstEndDay))
        headerIsNone == file.exists /\ file.lines = << >>
        header == ReadHeader(file)
    IN  IF readFails THEN [raised |-> "read", file |-> file]
        ELSE IF headerIsNone THEN [raised |-> "write", file |-> FileOf(<< >>)]
        ELSE [raised |-> "no",
              file |-> FileOf(<<csv_writerow(header)>>
                              \o csv_writerows([i \in 1..Len(existing_rows) |->
                                                   csv_read(existing_rows[i])])
                              \o csv_writerows(data))]

\* ------------------------------------------------------------------ state
VARIABLES
    today,          \* the current day (datetime.now().date())
    dstEndDay,      \* the zone's daylight-saving rule (see above)
    ledger,         \* the CSV ledger file
    cfgDaysToSave,  \* config.yaml: "Files"/"DaysToSave", << >> or <<n>>
    fund_data,      \* the records passed to the last save_to_csv
    saveRaised,     \* how the last save_to_csv ended: "no", "read", "write"
    prevLedger,     \* history: the ledger before the last save_to_csv
    lastSaveDay,    \* history: the day of the last save_to_csv, 0 if none
    saves,          \* history: number of save_to_csv invocations
    repeat,         \* history: the last save repeated the previous one
    distinctRuns,   \* history: every save so far got distinct symbols
    pc,             \* where main() is: "start", "bypass", "login", "watchlist",
                    \* "headers", "rows", "row_tab", "row_lookup", "save",
                    \* "finish", "done" (the process has exited)
    exitStatus,     \* the exit status, NotExited while running
    driverQuit,     \* driver.quit() was called in this run
    cookieFile,     \* cookies.json exists
    cacheFile,      \* fund_code_cache.json
    fatalFlag,      \* the logger's fatal-error state
    loginCalls,     \* history: calls of login() in this run
    resume,         \* history: how try_login_bypass ended in this run
    cookieDeleted,  \* history: delete_cookies() was called in this run
    progress,       \* history: what this run has passed: "setup", "auth",
                    \* "table", "headers", "extract", "save_called", "merge"
    ledgerAtStart,  \* history: the ledger when this run started
    headers,        \* the texts of the th elements of the table
    fund_col_index,
    price_col_index,
    rowsLeft,       \* rows of the listing not yet visited by the loop
    curRow,         \* the row the loop is at
    fund_list,      \* the records extracted so far
    handles,        \* number of browser windows (driver.window_handles)
    curWindow,      \* index of the driver's current window
    runs,           \* number of runs started
    loginSeen,      \* history: what the login() of this run met and returned
    cookieWritten,  \* history: save_cookies() wrote the cookie file in this run
    rowLog,         \* history: how each visited row ended: "emitted", "fault"
                    \* (the row itself faulted), "collateral" (skipped though
                    \* nothing is wrong with it), "abort" (its exception left
                    \* extract_fund_data)
    recoverySent,   \* the "Run recovery" email was sent by this run
    priorFatal      \* history: a run before this one ended fatally and no
                    \* recovery email was sent since

mergeVars == <<today, dstEndDay, ledger, cfgDaysToSave, fund_data, saveRaised,
               prevLedger, lastSaveDay, saves, repeat, distinctRuns>>

sessionVars == <<cookieFile, loginCalls, resume, cookieDeleted, loginSeen, cookieWritten>>

extractVars == <<headers, fund_col_index, price_col_index, rowsLeft, curRow,
                 fund_list, handles, curWindow, rowLog>>

notifyVars == <<recoverySent, priorFatal>>

runVars == <<pc, exitStatus, driverQuit, cacheFile, fatalFlag, progress,
             ledgerAtStart, runs, sessionVars, extractVars, notifyVars>>

vars == <<mergeVars, runVars>>

NotExited == -1
NoRow == [name |-> "", cacheAtStart |-> [kind |-> "absent", entries |-> << >>],
          tab |-> FALSE, emitted |-> FALSE]
NoLogin == [nav |-> "", email |-> "", marker |-> "", result |-> "none", filled |-> FALSE]

\* --------------------------------------------------------------- inputs
Codes == {"APIR1"}
NameOf(code) == IF code = "APIR1" THEN "Fund A" ELSE "Fund B"

\* A record as extract_fund_data appends it on day t.
Record(code, t, price) == <<code, strftime_ymd(t), NameOf(code), "AUD", price>>

RECURSIVE SeqsUpTo(_, _)
SeqsUpTo(S, n) ==
    IF n = 0 THEN {<< >>}
    ELSE LET shorter == SeqsUpTo(S, n - 1)
         IN  shorter \cup {Append(q, x) : q \in {r \in shorter : Len(r) = n - 1}, x \in S}

NewRecords(t) == SeqsUpTo({Record(c, t, "1.25") : c \in Codes \cup {None}}, MaxNew)

\* Values of DaysToSave the schema allows: null or a number from 0.
DaysToSaveValues == {<< >>, <<0>>, <<1>>, <<2>>}

\* Ledger files found at start: none, empty, or a header and up to
\* MaxInitRows rows, whose second cell is a date in either convention of
\* the ledger.
InitSymbols == {"APIR1"}
InitDates == {strftime_ymd(d) : d \in Days} \cup {strftime_dmy(1)}
InitRows == {<<sy, dt, NameOf(sy), "AUD", "1.10">> : sy \in InitSymbols, dt \in InitDates}
InitHeaders == {SchemaHeader, <<"Code", "Date", "Fund", "Ccy", "Unit Price">>}
InitialLedgers ==
    {NoFile, FileOf(<< >>)} \cup
    {FileOf(LinesOnDisk(<<h>> \o rs, k)) :
        h \in InitHeaders, rs \in SeqsUpTo(InitRows, MaxInitRows), k \in BOOLEAN}

DataRows(file) == IF file.lines = << >> THEN << >> ELSE Tail(file.lines)
KeyOf(line) == <<line.cells[1], line.cells[2]>>
UniqueKeys(file) ==
    \A i, j \in 1..Len(DataRows(file)) :
        KeyOf(DataRows(file)[i]) = KeyOf(DataRows(file)[j]) => i = j
DistinctSymbols(data) ==
    \A i, j \in 1..Len(data) : data[i][1] = data[j][1] => i = j

\* ---------------------------------------------------------- merge actions
MergeInit ==
    /\ today = MaxDay - 1
    /\ dstEndDay \in {0, MaxDay - 1}
    /\ ledger \in InitialLedgers
    /\ cfgDaysToSave \in DaysToSaveValues
    /\ fund_data = << >>
    /\ saveRaised = "no"
    /\ prevLedger = ledger
    /\ lastSaveDay = 0
    /\ saves = 0
    /\ repeat = FALSE
    /\ distinctRuns = UniqueKeys(ledger)
    /\ pc = "done"
    /\ exitStatus = NotExited
    /\ driverQuit = FALSE
    /\ cookieFile = FALSE
    /\ cacheFile = CacheFile("absent", << >>)
    /\ fatalFlag = FALSE
    /\ loginCalls = 0
    /\ resume = "none"
    /\ cookieDeleted = FALSE
    /\ progress = {}
    /\ ledgerAtStart = ledger
    /\ headers = << >>
    /\ fund_col_index = NoIndex
    /\ price_col_index = NoIndex
    /\ rowsLeft = 0
    /\ curRow = NoRow
    /\ fund_list = << >>
    /\ handles = 0
    /\ curWindow = 0
    /\ runs = 0
    /\ loginSeen = NoLogin
    /\ cookieWritten = FALSE
    /\ rowLog = << >>
    /\ recoverySent = FALSE
    /\ priorFatal = FALSE

\* One invocation of save_to_csv with records data.
SaveStep(data) ==
    LET r == save_to_csv(ledger, data, cfgDaysToSave, today, dstEndDay)
    IN  /\ ledger' = r.file
        /\ saveRaised' = r.raised
        /\ prevLedger' = ledger
        /\ fund_data' = data
        /\ UNCHANGED cfgDaysToSave
        /\ lastSaveDay' = today
        /\ saves' = saves + 1
        /\ repeat' = (/\ saves > 0
                      /\ saveRaised = "no"
                      /\ lastSaveDay = today
                      /\ data = fund_data)
        /\ distinctRuns' = (distinctRuns /\ DistinctSymbols(data))

MergeSave ==
    /\ saves < MaxSaves
    /\ \E data \in NewRecords(today) : SaveStep(data)
    /\ UNCHANGED <<today, dstEndDay, runVars>>

MergeNextDay ==
    /\ today < MaxDay
    /\ today' = today + 1
    /\ UNCHANGED <<dstEndDay, ledger, cfgDaysToSave, fund_data, saveRaised,
                   prevLedger, lastSaveDay, saves, repeat, distinctRuns, runVars>>

MergeNext == MergeSave \/ MergeNextDay

SpecMerge == MergeInit /\ [][MergeNext]_vars

\* ------------------------------------------------------------ run inputs
Names == {"Fund A", "Fund B"}
PriceValues == {"1.25"}

T_FundName == <<"F", "u", "n", "d", " ", "N", "a", "m", "e">>
T_FUND == <<" ", "F", "U", "N", "D", " ">>
T_Price == <<"C", "u", "r", "r", "e", "n", "t", " ", "U", "n", "i", "t", " ",
             "P", "r", "i", "c", "e">>
T_Code == <<"C", "o", "d", "e">>
HeaderTexts == {T_FundName, T_FUND, T_Price, T_Code}
HeaderLists == SeqsUpTo(HeaderTexts, MaxCols)

InitialCaches ==
    {CacheFile("absent", << >>), CacheFile("corrupt", << >>),
     CacheFile("binary", << >>), CacheFile("badshape", << >>)} \cup
    {CacheFile("list", es) :
        es \in SeqsUpTo({CacheEntry("Fund A", "APIR1"), CacheEntry("Fund A", "")},
                        MaxCache)}

RunLedgers ==
    {NoFile, FileOf(<< >>)} \cup
    {FileOf(LinesOnDisk(<<SchemaHeader, row>>, TRUE)) :
        row \in {<<"APIR1", dt, "Fund A", "AUD", "1.10">> :
                    dt \in {strftime_ymd(MaxDay - 2), strftime_dmy(1)}}}

\* ------------------------------------------------------------ run actions
RunInit ==
    /\ today = MaxDay - 1
    /\ dstEndDay \in {0, MaxDay - 1}
    /\ ledger \in RunLedgers
    /\ cfgDaysToSave \in {<< >>, <<1>>}
    /\ fund_data = << >>
    /\ saveRaised = "no"
    /\ prevLedger = ledger
    /\ lastSaveDay = 0
    /\ saves = 0
    /\ repeat = FALSE
    /\ distinctRuns = UniqueKeys(ledger)
    /\ pc = "start"
    /\ exitStatus = NotExited
    /\ driverQuit = FALSE
    /\ cookieFile \in BOOLEAN
    /\ cacheFile \in InitialCaches
    /\ fatalFlag = FALSE
    /\ loginCalls = 0
    /\ resume = "none"
    /\ cookieDeleted = FALSE
    /\ progress = {}
    /\ ledgerAtStart = ledger
    /\ headers = << >>
    /\ fund_col_index = NoIndex
    /\ price_col_index = NoIndex
    /\ rowsLeft = 0
    /\ curRow = NoRow
    /\ fund_list = << >>
    /\ handles = 0
    /\ curWindow = 0
    /\ runs = 1
    /\ loginSeen = NoLogin
    /\ cookieWritten = FALSE
    /\ rowLog = << >>
    /\ recoverySent = FALSE
    /\ priorFatal = FALSE

\* A component logged a fatal error and returned its failure value, and
\* main() answers with driver.quit() and sys.exit(1); or the handler of
\* "except Exception" in main() does the same (lines 616-621).
ExitFatal ==
    /\ fatalFlag' = TRUE
    /\ driverQuit' = TRUE
    /\ exitStatus' = 1
    /\ pc' = "done"

\* main() up to the creation of the driver.
Main_Setup ==
    /\ pc = "start"
    /\ \E outcome \in {"ok", "config_error", "logger_error", "driver_error"} :
          \/ /\ outcome = "ok"
             /\ pc' = "bypass"
             /\ handles' = 1
             /\ curWindow' = 0
             /\ progress' = progress \cup {"setup"}
             /\ UNCHANGED exitStatus
          \/ /\ outcome \in {"config_error", "logger_error"}
             /\ pc' = "done"
             /\ exitStatus' = 0
             /\ UNCHANGED <<handles, curWindow, progress>>
          \/ /\ outcome = "driver_error"
             /\ pc' = "done"
             /\ exitStatus' = 1
             /\ UNCHANGED <<handles, curWindow, progress>>
    /\ UNCHANGED <<mergeVars, driverQuit, cacheFile, fatalFlag,
                   ledgerAtStart, runs, sessionVars, headers, fund_col_index,
                   price_col_index, rowsLeft, curRow, fund_list, rowLog, notifyVars>>

\* try_login_bypass and, when it returns False, delete_cookies.
Main_TryLoginBypass ==
    /\ pc = "bypass"
    /\ \E env \in {"driver_fault", "marker", "timeout"} :
          LET r == try_login_bypass(cookieFile, env)
          IN  /\ resume' = IF env = "driver_fault" THEN "fault"
                           ELSE IF ~cookieFile THEN "nocookies" ELSE env
              /\ \/ /\ r = "true"
                    /\ pc' = "watchlist"
                    /\ progress' = progress \cup {"auth"}
                    /\ UNCHANGED <<cookieFile, cookieDeleted, fatalFlag,
                                   driverQuit, exitStatus>>
                 \/ /\ r = "false"
                    /\ cookieFile' = FALSE
                    /\ cookieDeleted' = TRUE
                    /\ pc' = "login"
                    /\ UNCHANGED <<progress, fatalFlag, driverQuit, exitStatus>>
                 \/ /\ r = "raise"
                    /\ ExitFatal
                    /\ UNCHANGED <<cookieFile, cookieDeleted, progress>>
    /\ UNCHANGED <<mergeVars, cacheFile, ledgerAtStart, runs, loginCalls, loginSeen,
                   cookieWritten, extractVars, notifyVars>>

\* login and, when it returns True, save_cookies.
Main_Login ==
    /\ pc = "login"
    /\ loginCalls' = loginCalls + 1
    /\ \E nav \in {"ok", "fault"}, email \in {"visible", "timeout", "fault"},
          marker \in {"present", "timeout", "fault"} :
          LET r == login(nav, email, marker)
          IN  /\ loginSeen' = [nav |-> nav, email |-> email, marker |-> marker,
                                result |-> r.result, filled |-> r.filled]
              /\ cookieWritten' = SavesCookies(r.result)
              /\ cookieFile' = IF SavesCookies(r.result) THEN TRUE ELSE cookieFile
              /\ \/ /\ r.result = "true"
                    /\ pc' = "watchlist"
                    /\ progress' = progress \cup {"auth"}
                    /\ UNCHANGED <<fatalFlag, driverQuit, exitStatus>>
                 \/ /\ r.result # "true"
                    /\ ExitFatal
                    /\ UNCHANGED progress
    /\ UNCHANGED <<mergeVars, cacheFile, ledgerAtStart, runs, resume,
                   cookieDeleted, extractVars, notifyVars>>

\* get_watchlist_table: the table, or None after a timeout or driver fault.
Main_GetWatchlistTable ==
    /\ pc = "watchlist"
    /\ \E found \in BOOLEAN :
          IF found
          THEN /\ pc' = "headers"
               /\ progress' = progress \cup {"table"}
               /\ UNCHANGED <<fatalFlag, driverQuit, exitStatus>>
          ELSE /\ ExitFatal
               /\ UNCHANGED progress
    /\ UNCHANGED <<mergeVars, cacheFile, ledgerAtStart, runs, sessionVars, extractVars,
                   notifyVars>>

\* extract_fund_data up to the loop over the rows.
Extract_Headers ==
    /\ pc = "headers"
    /\ \E hs \in HeaderLists, scan \in {"ok", "headers_fault", "rows_fault"},
          n \in 0..MaxRows :
          IF scan = "headers_fault"
          THEN /\ ExitFatal
               /\ UNCHANGED <<headers, fund_col_index, price_col_index, rowsLeft,
                              progress>>
          ELSE /\ headers' = hs
               /\ progress' = progress \cup {"headers"}
               /\ fund_col_index' = ColumnIndex(hs, FundKey)
               /\ price_col_index' = ColumnIndex(hs, PriceKey)
               /\ IF \/ ColumnIndex(hs, FundKey) = NoIndex
                     \/ ColumnIndex(hs, PriceKey) = NoIndex
                     \/ scan = "rows_fault"
                  THEN ExitFatal /\ UNCHANGED rowsLeft
                  ELSE /\ rowsLeft' = n
                       /\ pc' = "rows"
                       /\ UNCHANGED <<fatalFlag, driverQuit, exitStatus>>
    /\ UNCHANGED <<mergeVars, cacheFile, ledgerAtStart, runs,
                   sessionVars, curRow, fund_list, handles, curWindow, rowLog,
                   notifyVars>>

\* The except clause of the loop: the row is skipped.
SkipRow(how) ==
    /\ rowLog' = Append(rowLog, how)
    /\ fatalFlag' = TRUE
    /\ rowsLeft' = rowsLeft - 1
    /\ pc' = "rows"
    /\ UNCHANGED <<fund_list, driverQuit, exitStatus>>

\* fund_list.append((apir_code, today_str, fund_name, "AUD", price_value))
EmitRow(code, name, price) ==
    /\ fund_list' = Append(fund_list, <<code, strftime_ymd(today), name, "AUD", price>>)
    /\ rowLog' = Append(rowLog, "emitted")
    /\ rowsLeft' = rowsLeft - 1
    /\ pc' = "rows"
    /\ UNCHANGED <<fatalFlag, driverQuit, exitStatus>>

\* One row, from its parsing to the first extract_apir_code.  A row element
\* is reachable only while the listing window is the current one.
Extract_Row ==
    /\ pc = "rows"
    /\ rowsLeft > 0
    /\ \E parse \in {"ok", "driver_fault", "error"}, name \in Names,
          price \in PriceValues, scanned \in Codes \cup {None} :
          IF curWindow # 0 \/ parse = "driver_fault"
          THEN /\ SkipRow(IF parse = "ok" THEN "collateral" ELSE "fault")
               /\ curRow' = NoRow
               /\ UNCHANGED cacheFile
          ELSE IF parse = "error"
          THEN /\ ExitFatal
               /\ rowLog' = Append(rowLog, "abort")
               /\ curRow' = NoRow
               /\ UNCHANGED <<cacheFile, rowsLeft, fund_list>>
          ELSE LET r == extract_apir_code(cacheFile, name, scanned)
                   row == [name |-> name, cacheAtStart |-> cacheFile,
                           tab |-> FALSE, emitted |-> Truthy(r.code)]
               IN  /\ curRow' = row
                   /\ IF r.raised
                      THEN /\ ExitFatal
                           /\ rowLog' = Append(rowLog, "abort")
                           /\ UNCHANGED <<cacheFile, rowsLeft, fund_list>>
                      ELSE IF Truthy(r.code)
                      THEN EmitRow(r.code, name, price) /\ cacheFile' = r.cache
                      ELSE /\ pc' = "row_tab"
                           /\ UNCHANGED <<cacheFile, rowsLeft, fund_list, fatalFlag,
                                          driverQuit, exitStatus, rowLog>>
    /\ UNCHANGED <<mergeVars, progress, ledgerAtStart, runs, sessionVars, headers,
                   fund_col_index, price_col_index, handles, curWindow, notifyVars>>

\* window.open, switch to the new window, get the detail page and wait for
\* its marker table.
Extract_OpenTab ==
    /\ pc = "row_tab"
    /\ handles' = handles + 1
    /\ curWindow' = 1
    /\ curRow' = [curRow EXCEPT !.tab = TRUE]
    /\ \E loaded \in BOOLEAN :
          IF loaded
          THEN /\ pc' = "row_lookup"
               /\ UNCHANGED <<rowsLeft, fund_list, fatalFlag, driverQuit, exitStatus,
                              rowLog>>
          ELSE SkipRow("fault")
    /\ UNCHANGED <<mergeVars, cacheFile, progress, ledgerAtStart, runs, sessionVars,
                   headers, fund_col_index, price_col_index, notifyVars>>

\* The second extract_apir_code, driver.close and the switch back.
Extract_Lookup ==
    /\ pc = "row_lookup"
    /\ \E price \in PriceValues, scanned \in Codes \cup {None} :
          LET r == extract_apir_code(cacheFile, curRow.name, scanned)
          IN  /\ cacheFile' = r.cache
              /\ EmitRow(r.code, curRow.name, price)
    /\ handles' = handles - 1
    /\ curWindow' = 0
    /\ curRow' = [curRow EXCEPT !.emitted = TRUE]
    /\ UNCHANGED <<mergeVars, progress, ledgerAtStart, runs, sessionVars, headers,
                   fund_col_index, price_col_index, notifyVars>>

\* What extract_fund_data hands to main(): None, or its list.
ReturnedList(list) == [none |-> FALSE, list |-> list]

\* A main() that takes an empty list for a failed extraction.
main_rejects_falsy(ret) == ret.none \/ ret.list = << >>

\* main(): "if fund_data is None: driver.quit(); sys.exit(1)".
main_rejects(ret) == ret.none

\* "return fund_list" at the end of the loop, and the test of the returned
\* value in main().
Extract_Return ==
    /\ pc = "rows"
    /\ rowsLeft = 0
    /\ progress' = progress \cup {"extract"}
    /\ IF main_rejects(ReturnedList(fund_list))
       THEN /\ driverQuit' = TRUE
            /\ exitStatus' = 1
            /\ pc' = "done"
       ELSE /\ pc' = "save"
            /\ UNCHANGED <<exitStatus, driverQuit>>
    /\ UNCHANGED <<mergeVars, cacheFile, fatalFlag,
                   ledgerAtStart, runs, sessionVars, extractVars, notifyVars>>

\* save_to_csv(config, fund_data, csv_file_path) in main().
Main_SaveToCsv ==
    /\ pc = "save"
    /\ SaveStep(fund_list)
    /\ IF save_to_csv(ledger, fund_list, cfgDaysToSave, today, dstEndDay).raised = "no"
       THEN /\ pc' = "finish"
            /\ progress' = progress \cup {"save_called", "merge"}
            /\ UNCHANGED <<fatalFlag, driverQuit, exitStatus>>
       ELSE ExitFatal /\ progress' = progress \cup {"save_called"}
    /\ UNCHANGED <<today, dstEndDay, cacheFile, ledgerAtStart, runs, sessionVars,
                   extractVars, notifyVars>>

\* The end of main() after a successful save: driver.quit(), then
\* "if logger.get_fatal_error():" the recovery email and
\* clear_fatal_error(); and sys.exit(0).
Main_Finish ==
    /\ pc = "finish"
    /\ driverQuit' = TRUE
    /\ recoverySent' = fatalFlag
    /\ fatalFlag' = FALSE
    /\ exitStatus' = 0
    /\ pc' = "done"
    /\ UNCHANGED <<mergeVars, cacheFile, progress, ledgerAtStart, runs, sessionVars,
                   extractVars, priorFatal>>

\* The next invocation of the program, the same day or the day after.
NextRun ==
    /\ pc = "done"
    /\ runs < MaxRuns
    /\ runs' = runs + 1
    /\ \E t \in {today, today + 1} : t <= MaxDay /\ today' = t
    /\ pc' = "start"
    /\ exitStatus' = NotExited
    /\ driverQuit' = FALSE
    /\ loginCalls' = 0
    /\ resume' = "none"
    /\ cookieDeleted' = FALSE
    /\ progress' = {}
    /\ ledgerAtStart' = ledger
    /\ headers' = << >>
    /\ fund_col_index' = NoIndex
    /\ price_col_index' = NoIndex
    /\ rowsLeft' = 0
    /\ curRow' = NoRow
    /\ fund_list' = << >>
    /\ handles' = 0
    /\ curWindow' = 0
    /\ loginSeen' = NoLogin
    /\ cookieWritten' = FALSE
    /\ rowLog' = << >>
    /\ recoverySent' = FALSE
    /\ priorFatal' = IF exitStatus = 1 /\ "setup" \in progress THEN TRUE
                     ELSE IF recoverySent THEN FALSE ELSE priorFatal
    /\ UNCHANGED <<dstEndDay, ledger, cfgDaysToSave, fund_data, saveRaised,
                   prevLedger, lastSaveDay, saves, repeat, distinctRuns,
                   cookieFile, cacheFile, fatalFlag>>

Next ==
    \/ Main_Setup
    \/ Main_TryLoginBypass
    \/ Main_Login
    \/ Main_GetWatchlistTable
    \/ Extract_Headers
    \/ Extract_Row
    \/ Extract_OpenTab
    \/ Extract_Lookup
    \/ Extract_Return
    \/ Main_SaveToCsv
    \/ Main_Finish
    \/ NextRun

Spec == RunInit /\ [][Next]_vars

\* ------------------------------------------------- the extraction loop
\* A run of main() from the point where extract_fund_data has resolved the
\* two columns of a listing of up to MaxListRows rows (the session was
\* resumed from the cookie file), to its exit.
ExtractInit ==
    /\ today = MaxDay - 1
    /\ dstEndDay = 0
    /\ ledger = NoFile
    /\ cfgDaysToSave = << >>
    /\ fund_data = << >>
    /\ saveRaised = "no"
    /\ prevLedger = ledger
    /\ lastSaveDay = 0
    /\ saves = 0
    /\ repeat = FALSE
    /\ distinctRuns = TRUE
    /\ pc = "rows"
    /\ exitStatus = NotExited
    /\ driverQuit = FALSE
    /\ cookieFile = TRUE
    /\ cacheFile \in InitialCaches
    /\ fatalFlag = FALSE
    /\ loginCalls = 0
    /\ resume = "marker"
    /\ cookieDeleted = FALSE
    /\ progress = {"setup", "auth", "table", "headers"}
    /\ ledgerAtStart = ledger
    /\ headers = <<T_FundName, T_Price>>
    /\ fund_col_index = ColumnIndex(headers, FundKey)
    /\ price_col_index = ColumnIndex(headers, PriceKey)
    /\ rowsLeft \in 0..MaxListRows
    /\ curRow = NoRow
    /\ fund_list = << >>
    /\ handles = 1
    /\ curWindow = 0
    /\ runs = 1
    /\ loginSeen = NoLogin
    /\ cookieWritten = FALSE
    /\ rowLog = << >>
    /\ recoverySent = FALSE
    /\ priorFatal = FALSE

ExtractNext ==
    \/ Extract_Row
    \/ Extract_OpenTab
    \/ Extract_Lookup
    \/ Extract_Return
    \/ Main_SaveToCsv
    \/ Main_Finish

SpecExtract == ExtractInit /\ [][ExtractNext]_vars

\* ---------------------------------------------------------------- claims
Stages == {"auth", "table", "extract", "merge"}

\* C2 (as claimed): when the cookie file is present and the wait of the
\* resume times out, the run deletes the cookie file and calls login()
\* exactly once.
C2_StaleCookieFallback ==
    (pc = "done" /\ resume = "timeout") => (cookieDeleted /\ loginCalls = 1)

\* C6 (as claimed): a run that ends without completing its stages leaves
\* the ledger as it was; save_to_csv is called only after authentication,
\* the table and the extraction succeeded; and a failure inside save_to_csv
\* happens before the file is opened for writing.
C6_FailedRunLeavesLedger ==
    /\ (pc = "done" /\ "merge" \notin progress) => ledger = ledgerAtStart
    /\ (pc = "save" \/ "save_called" \in progress)
           => {"auth", "table", "extract"} \subseteq progress
    /\ ("save_called" \in progress /\ "merge" \notin progress) => saveRaised = "read"

\* C7 (as claimed): a run that fails in session establishment, extraction
\* or merge exits with a non-zero status after driver.quit(), and only a run
\* in which all stages succeeded exits with status 0.
C7_ExitStatus ==
    pc = "done" =>
        /\ ("setup" \in progress /\ ~(Stages \subseteq progress))
               => (exitStatus # 0 /\ driverQuit)
        /\ exitStatus = 0 => Stages \subseteq progress

\* C8: a row whose fund name has an entry with a non-empty code in the
\* cache opens no tab, and its record carries a code cached for that name.
HasCachedCode(cf, name) ==
    /\ cf.kind = "list"
    /\ \E i \in 1..Len(cf.entries) :
          cf.entries[i].fund_name = name /\ cf.entries[i].apir_code \notin {"", None}
CachedCodes(cf, name) ==
    {cf.entries[i].apir_code : i \in {k \in 1..Len(cf.entries) : cf.entries[k].fund_name = name}}
C8_CacheHitNoLookup ==
    (curRow.name # "" /\ HasCachedCode(curRow.cacheAtStart, curRow.name)) =>
        /\ ~curRow.tab
        /\ pc \notin {"row_tab", "row_lookup"}
        /\ handles = 1
        /\ curRow.emitted
        /\ fund_list[Len(fund_list)][1] \in CachedCodes(curRow.cacheAtStart, curRow.name) \ {""}
        /\ fund_list[Len(fund_list)][3] = curRow.name
C8_Witness ==
    /\ curRow.name = "Fund A"
    /\ HasCachedCode(curRow.cacheAtStart, "Fund A")
    /\ curRow.emitted
    /\ pc = "rows"

\* C9: the name column resolves iff some header has "fund" in any case, the
\* price column iff some header has "current unit price" in any case, and
\* when one of them does not resolve the extraction is fatal: no record, no
\* save, exit status 1.
FundTexts == {T_FundName, T_FUND}
PriceTexts == {T_Price}
C9_HeaderResolution ==
    "headers" \in progress =>
        /\ fund_col_index # NoIndex <=> \E i \in 1..Len(headers) : headers[i] \in FundTexts
        /\ price_col_index # NoIndex <=> \E i \in 1..Len(headers) : headers[i] \in PriceTexts
        /\ fund_col_index # NoIndex => headers[fund_col_index + 1] \in FundTexts
        /\ price_col_index # NoIndex => headers[price_col_index + 1] \in PriceTexts
        /\ (fund_col_index = NoIndex \/ price_col_index = NoIndex) =>
               /\ pc = "done" /\ exitStatus = 1 /\ fatalFlag /\ driverQuit
               /\ fund_list = << >>
               /\ "extract" \notin progress /\ "save_called" \notin progress
               /\ ledger = ledgerAtStart
C9_Witness ==
    /\ "headers" \in progress
    /\ \E i \in 1..Len(headers) : headers[i] = T_FUND
    /\ \A i \in 1..Len(headers) : headers[i] # T_FundName
    /\ fund_col_index # NoIndex /\ price_col_index # NoIndex
    /\ pc = "rows"

\* C1 (as claimed): a second save_to_csv with the same records, window and
\* day on the file the first one produced leaves the file as it was.
C1_SameDayIdempotent == (repeat /\ saveRaised = "no") => ledger = prevLedger

\* The window a run is configured with: DaysToSave, 30 when it is null.
ConfiguredWindow(cfg) == IF cfg = << >> THEN DefaultDaysToSave ELSE cfg[1]
SavedOk == saves > 0 /\ saveRaised = "no"
RowDay(line) == strptime_ymd(line.cells[2])

\* C3 (as claimed): every data row of the ledger written on day t with
\* window w is dated within [t - w, t].
C3_RetentionWindow ==
    SavedOk =>
        \A i \in 1..Len(DataRows(ledger)) :
            /\ RowDay(DataRows(ledger)[i]) >= lastSaveDay - ConfiguredWindow(cfgDaysToSave)
            /\ RowDay(DataRows(ledger)[i]) <= lastSaveDay

\* C4 (as claimed): an existing row dated before today and within the
\* window, whose symbol is not among the new records' symbols, is in the
\* written ledger with the same cells.
NewSymbols(data) == {csv_field(data[i][1]) : i \in 1..Len(data)}
C4_NoCrossDayLoss ==
    SavedOk =>
        \A i \in 1..Len(DataRows(prevLedger)) :
            LET row == DataRows(prevLedger)[i]
            IN  (/\ row.cells # << >>
                 /\ RowDay(row) < lastSaveDay
                 /\ RowDay(row) >= lastSaveDay - ConfiguredWindow(cfgDaysToSave)
                 /\ row.cells[1] \notin NewSymbols(fund_data))
                => \E j \in 1..Len(DataRows(ledger)) :
                       DataRows(ledger)[j].cells = row.cells

\* C5 (as claimed): when every run's records have pairwise distinct
\* symbols, the ledger holds at most one row per (symbol, date).
C5_UniqueSymbolDate == (SavedOk /\ distinctRuns) => UniqueKeys(ledger)

\* C10: the header written is the header read from the existing file, and
\* the schema header when there was no file.
C10_HeaderPreserved ==
    SavedOk =>
        Head(ledger.lines).cells =
            IF prevLedger.exists THEN Head(prevLedger.lines).cells ELSE SchemaHeader
C10_Witness ==
    /\ SavedOk /\ saves >= 2 /\ prevLedger.exists
    /\ Head(ledger.lines).cells # SchemaHeader

\* C11 (as claimed): a run that completes sends the recovery email exactly
\* when a run before it ended fatally and no recovery email was sent since
\* (so not when the only thing that happened is that rows of this run were
\* skipped), and it leaves the logger's fatal state cleared.
C11_RecoveryNotification ==
    (pc = "done" /\ exitStatus = 0 /\ Stages \subseteq progress) =>
        /\ recoverySent <=> priorFatal
        /\ ~fatalFlag

\* C12 (as claimed): a cache file whose content cannot be used as a cache
\* (not JSON, not text, or JSON of another shape) behaves as an empty cache:
\* the row that consulted it does not end the extraction.
UnusableCacheKinds == {"corrupt", "binary", "badshape"}

C13_TabDiscipline ==
    /\ handles <= 2
    /\ (pc = "rows" /\ rowsLeft > 0) => (handles = 1 /\ curWindow = 0)

\* C14 (as claimed): the rows of the written ledger that precede the new
\* records are exactly the existing rows dated within [today - w, today]
\* and not today, in their order: every existing row dated today is gone.
SupersedeKeeps(line, t, w) ==
    /\ line.cells # << >>
    /\ RowDay(line) >= t - w
    /\ RowDay(line) <= t
    /\ RowDay(line) # t

C14_SameDaySupersede ==
    SavedOk =>
        LET kept == SubSeq(DataRows(ledger), 1,
                           Len(DataRows(ledger)) - Len(fund_data))
            expected == SelectSeq(DataRows(prevLedger),
                                  LAMBDA line :
                                      SupersedeKeeps(line, lastSaveDay,
                                                     ConfiguredWindow(cfgDaysToSave)))
        IN  /\ Len(kept) = Len(expected)
            /\ \A i \in 1..Len(kept) : kept[i].cells = expected[i].cells

\* C15 (as claimed): a fault of one row, the timeout of the wait for its
\* detail page included, costs that row only: no row is skipped that did
\* not fault itself, and the list returned has one record for every row
\* that did not fault.
C15_RowFailureIsolated ==
    /\ \A i \in 1..Len(rowLog) : rowLog[i] # "collateral"
    /\ pc \in {"save", "finish"} =>
           Len(fund_list) = Cardinality({i \in 1..Len(rowLog) : rowLog[i] # "fault"})

\* C16: every step that changes the cache file is the step that emits a
\* record with a non-empty code, and leaves the file a list that holds the
\* entry (name of the row, that code); and a step that emits a record
\* without a code leaves the cache file as it was.
C16_MissNotCached ==
    [][/\ cacheFile' # cacheFile =>
              /\ Len(fund_list') = Len(fund_list) + 1
              /\ fund_list'[Len(fund_list')][1] \notin {None, ""}
              /\ cacheFile'.kind = "list"
              /\ \E i \in 1..Len(cacheFile'.entries) :
                    /\ cacheFile'.entries[i].fund_name = curRow'.name
                    /\ cacheFile'.entries[i].fund_name = fund_list'[Len(fund_list')][3]
                    /\ cacheFile'.entries[i].apir_code = fund_list'[Len(fund_list')][1]
       /\ (/\ Len(fund_list') = Len(fund_list) + 1
           /\ fund_list'[Len(fund_list')][1] \in {None, ""}) => cacheFile' = cacheFile
      ]_vars
C16_Witness ==
    /\ pc = "save"
    /\ \E i \in 1..Len(fund_list) :
          /\ fund_list[i][1] = None
          /\ fund_list[i][3] = "Fund A"
    /\ \E i \in 1..Len(fund_list) :
          /\ fund_list[i][1] = "APIR1"
          /\ fund_list[i][3] = "Fund B"
    /\ cacheFile.kind = "list"
    /\ \E i \in 1..Len(cacheFile.entries) :
          cacheFile.entries[i] = CacheEntry("Fund B", "APIR1")
    /\ \A i \in 1..Len(cacheFile.entries) : cacheFile.entries[i].fund_name # "Fund A"

\* C17: the cookie file is written only in a run whose login() returned
\* true, after that return: never in a run that resumed from the cookie
\* file (whether the marker appeared or the wait timed out), never after a
\* login() that failed; and a cookie file comes into being only that way.
C17_CookiesOnlyAfterLogin ==
    [][/\ cookieWritten' =>
              /\ loginSeen'.result = "true"
              /\ loginCalls' = 1
              /\ "auth" \in progress'
              /\ cookieFile'
       /\ resume' \in {"marker", "timeout", "fault"} => ~cookieWritten'
       /\ loginSeen'.result \in {"false", "raise"} => ~cookieWritten'
       /\ (~cookieFile /\ cookieFile') => (pc = "login" /\ cookieWritten')
      ]_vars
C17_Witness ==
    /\ cookieWritten /\ cookieFile
    /\ resume = "nocookies" /\ cookieDeleted
    /\ loginSeen.result = "true"
    /\ pc = "watchlist"

\* C18: login() is called at most once in a run and never after the resume
\* succeeded: then the run goes on to the extraction with the cookie file
\* neither deleted nor rewritten; and a login() that failed ends the run
\* with no second call.
C18_LoginAtMostOnce ==
    /\ loginCalls <= 1
    /\ resume = "marker" =>
           /\ loginCalls = 0 /\ loginSeen = NoLogin
           /\ pc # "login"
           /\ "auth" \in progress
           /\ cookieFile /\ ~cookieDeleted /\ ~cookieWritten
    /\ loginSeen.result \in {"false", "raise"} =>
           /\ loginCalls = 1
           /\ pc = "done" /\ exitStatus = 1
           /\ "auth" \notin progress
C18_Witness ==
    /\ resume = "marker"
    /\ pc = "save"
    /\ loginCalls = 0
    /\ cookieFile

\* C19: when the login page loads and its Email field does not appear
\* within the long timeout, login() returns true without filling in the
\* form if the account marker appears within the short timeout, and logs a
\* fatal error and returns false if the marker does not appear either.
C19_AlreadyAuthenticated ==
    (loginSeen.nav = "ok" /\ loginSeen.email = "timeout") =>
        /\ ~loginSeen.filled
        /\ loginSeen.marker = "present" =>
               /\ loginSeen.result = "true"
               /\ "auth" \in progress
        /\ loginSeen.marker = "timeout" =>
               /\ loginSeen.result = "false"
               /\ fatalFlag
               /\ pc = "done" /\ exitStatus = 1
C19_Witness ==
    /\ loginSeen.nav = "ok" /\ loginSeen.email = "timeout"
    /\ loginSeen.marker = "present"
    /\ loginSeen.result = "true"
    /\ pc = "watchlist"

\* C20 (as claimed): a resume whose wait for the account marker times out
\* leads to the login path, and a resume that meets any other driver fault
\* ends the run fatally without a call of login().
C20_ResumeFailureClassification ==
    /\ resume = "timeout" => (pc = "login" \/ loginCalls = 1)
    /\ resume = "fault" =>
           /\ pc = "done" /\ exitStatus = 1 /\ fatalFlag
           /\ loginCalls = 0

\* C21: the file a save_to_csv that returned has written is the header,
\* then existing rows in the order they had in the file before, then every
\* new record in the order given, one line each, also when two of them
\* have the same symbol and date.
RECURSIVE IsSubseq(_, _)
IsSubseq(a, b) ==
    IF a = << >> THEN TRUE
    ELSE IF b = << >> THEN FALSE
    ELSE IF Head(a) = Head(b) THEN IsSubseq(Tail(a), Tail(b))
    ELSE IsSubseq(a, Tail(b))

CellsOf(lines) == [i \in 1..Len(lines) |-> lines[i].cells]
WrittenCells(record) == [i \in 1..Len(record) |-> IF record[i] = None THEN "" ELSE record[i]]
KeptCount == Len(ledger.lines) - 1 - Len(fund_data)

C21_MergeComposition ==
    SavedOk =>
        /\ ledger.exists
        /\ KeptCount >= 0
        /\ Head(ledger.lines).cells =
               IF prevLedger.exists THEN Head(prevLedger.lines).cells ELSE SchemaHeader
        /\ IsSubseq(CellsOf(SubSeq(ledger.lines, 2, 1 + KeptCount)),
                    CellsOf(DataRows(prevLedger)))
        /\ \A j \in 1..Len(fund_data) :
               ledger.lines[1 + KeptCount + j].cells = WrittenCells(fund_data[j])
        /\ \A i \in 1..Len(ledger.lines) : ledger.lines[i].canon
C21_Witness ==
    /\ SavedOk
    /\ Len(fund_data) = 2 /\ fund_data[1] = fund_data[2]
    /\ KeptCount = 2
    /\ ledger.lines[2].cells # ledger.lines[3].cells
    /\ CellsOf(SubSeq(ledger.lines, 2, 3)) = CellsOf(DataRows(prevLedger))

\* C22 (as claimed): with DaysToSave configured as a number d, 0 included,
\* no existing row dated before today - d is retained; with d = 0 only rows
\* dated today are.
C22_WindowEqualsDaysToSave ==
    (SavedOk /\ cfgDaysToSave # << >>) =>
        \A i \in 1..KeptCount :
            RowDay(ledger.lines[1 + i]) >= lastSaveDay - cfgDaysToSave[1]

\* C23: a step leaves every entry of a readable cache file in its place and
\* unchanged, and a step that writes the file adds one entry after them.
C23_CacheAppendOnly ==
    [][cacheFile.kind = "list" =>
           /\ cacheFile'.kind = "list"
           /\ Len(cacheFile'.entries) >= Len(cacheFile.entries)
           /\ SubSeq(cacheFile'.entries, 1, Len(cacheFile.entries)) = cacheFile.entries
           /\ cacheFile' # cacheFile =>
                  Len(cacheFile'.entries) = Len(cacheFile.entries) + 1
      ]_vars
C23_Witness ==
    /\ cacheFile.kind = "list"
    /\ Len(cacheFile.entries) = 3
    /\ cacheFile.entries[1] = CacheEntry("Fund A", "")
    /\ cacheFile.entries[2].fund_name # cacheFile.entries[3].fund_name
    /\ Len(fund_list) = 2

\* C24: when extract_fund_data returns an empty list the run goes on to
\* save_to_csv with no records, and when that returns, the ledger is its
\* header and the rows of the ledger found that pass the retention filter,
\* in their order, and the process exits with status 0.
C24_EmptyExtractionMerges ==
    ("extract" \in progress /\ fund_list = << >>) =>
        /\ pc \in {"save", "finish", "done"}
        /\ pc = "done" =>
               /\ "save_called" \in progress
               /\ fund_data = << >>
               /\ prevLedger = ledgerAtStart
        /\ (pc = "done" /\ "save_called" \in progress /\ saveRaised = "no") =>
               /\ exitStatus = 0
               /\ Stages \subseteq progress
               /\ ledger.exists
               /\ Len(ledger.lines) >= 1
               /\ IsSubseq(CellsOf(DataRows(ledger)), CellsOf(DataRows(ledgerAtStart)))
               /\ \A i \in 1..Len(DataRows(ledger)) :
                      RowDay(DataRows(ledger)[i]) >=
                          today - OrDefault(cfgDaysToSave, DefaultDaysToSave)
               /\ \A i \in 1..Len(DataRows(ledgerAtStart)) :
                      RowDay(DataRows(ledgerAtStart)[i]) >= today
                          => \E j \in 1..Len(DataRows(ledger)) :
                                 DataRows(ledger)[j].cells = DataRows(ledgerAtStart)[i].cells
C24_Witness ==
    /\ pc = "done" /\ exitStatus = 0
    /\ "extract" \in progress /\ fund_list = << >>
    /\ rowLog # << >>
    /\ ledgerAtStart.exists
    /\ Len(DataRows(ledger)) < Len(DataRows(ledgerAtStart))
====
